---- MODULE Spec2Model ----
(***************************************************************************)
(* Verification model of the dependency analyzer of DocAgent               *)
(* (src/src/dependency_analyzer/topo_sort.py): Tarjan cycle detection,     *)
(* cycle breaking and the dependency-first depth-first traversal.          *)
(*                                                                         *)
(* A graph is a Python dict {node: set(deps)}.  The dict iterates its keys *)
(* in insertion order (the sequence `keys`); a set of strings iterates in  *)
(* an order fixed by the interpreter's per-process string hashing (the     *)
(* sequence iter[node], some permutation of graph[node]).  Node ids are    *)
(* the integers 1..n, so that sorted() is the ascending order.             *)
(***************************************************************************)
EXTENDS Integers, Sequences, FiniteSets, TLC

\* ------------------------------------------------------------------ bounds
MaxNodes == 3
MaxEdges == 4
MaxRuns == 2

\* ----------------------------------------------------------------- helpers
Range(s) == {s[i] : i \in 1..Len(s)}

Min(a, b) == IF a < b THEN a ELSE b

\* all orders in which the members of S can be iterated
Perms(S) ==
    {s \in [1..Cardinality(S) -> S] : \A i, j \in 1..Cardinality(S) : i # j => s[i] # s[j]}

\* Python sorted() over a collection of distinct ids
RECURSIVE sorted(_)
sorted(S) ==
    IF S = {} THEN <<>>
    ELSE LET m == CHOOSE x \in S : \A y \in S : x <= y
         IN  <<m>> \o sorted(S \ {m})

\* position of x in sequence s (list.index); 0 when absent
IndexOf(s, x) == IF x \in Range(s) THEN CHOOSE i \in 1..Len(s) : s[i] = x ELSE 0

NumEdges(g) ==
    LET RECURSIVE sum(_)
        sum(k) == IF k = 0 THEN 0 ELSE Cardinality(g[k]) + sum(k - 1)
    IN  sum(Len(g))

\* every assignment of an iteration order to each dependency set of g
IterOrders(g) ==
    LET RECURSIVE build(_)
        build(k) == IF k = 0 THEN {<<>>}
                    ELSE {Append(f, p) : f \in build(k - 1), p \in Perms(g[k])}
    IN  build(Len(g))

\* graph.get(node, set()) as iterated by a for loop
successors(g, it, node) == IF node \in DOMAIN g THEN it[node] ELSE <<>>

\* ----------------------------------------------------------- detect_cycles
\* locals of detect_cycles before the first strongconnect
TarjanInit ==
    [index_counter |-> 0, index |-> <<>>, lowlink |-> <<>>,
     onstack |-> {}, stack |-> <<>>, result |-> <<>>]

\* the while True loop of strongconnect: pop until node comes off the stack
RECURSIVE pop_scc(_, _, _)
\* variant: only the top of the stack is popped
pop_scc_top(node, st, scc) ==
    LET successor == st.stack[Len(st.stack)]
    IN  [st |-> [st EXCEPT !.stack = SubSeq(st.stack, 1, Len(st.stack) - 1),
                           !.onstack = @ \ {successor}],
         scc |-> Append(scc, successor)]

pop_scc(node, st, scc) ==
    LET successor == st.stack[Len(st.stack)]
        st1 == [st EXCEPT !.stack = SubSeq(st.stack, 1, Len(st.stack) - 1),
                          !.onstack = @ \ {successor}]
        scc1 == Append(scc, successor)
    IN  IF successor = node THEN [st |-> st1, scc |-> scc1]
        ELSE pop_scc(node, st1, scc1)

\* variant: every component is reported, single nodes included
scc_size_reported_any(scc) == Len(scc) >= 1

\* variant: a component is reported only from three members on
scc_size_reported_three(scc) == Len(scc) > 2

\* if len(scc) > 1: result.append(scc)
scc_size_reported(scc) == Len(scc) > 1

RECURSIVE strongconnect(_, _, _, _)
RECURSIVE visit_successors(_, _, _, _, _)
visit_successors(g, it, node, i, st) ==
    IF i > Len(successors(g, it, node)) THEN st
    ELSE LET successor == successors(g, it, node)[i]
             st1 == IF successor \notin DOMAIN st.index
                    THEN LET s2 == strongconnect(g, it, successor, st)
                         IN  [s2 EXCEPT !.lowlink[node] =
                                 Min(s2.lowlink[node], s2.lowlink[successor])]
                    ELSE IF successor \in st.onstack
                    THEN [st EXCEPT !.lowlink[node] = Min(@, st.index[successor])]
                    ELSE st
         IN  visit_successors(g, it, node, i + 1, st1)

strongconnect(g, it, node, st) ==
    LET st0 == [st EXCEPT !.index = (node :> st.index_counter) @@ @,
                          !.lowlink = (node :> st.index_counter) @@ @,
                          !.index_counter = @ + 1,
                          !.stack = Append(@, node),
                          !.onstack = @ \cup {node}]
        st1 == visit_successors(g, it, node, 1, st0)
    IN  IF st1.lowlink[node] = st1.index[node]
        THEN LET p == pop_scc(node, st1, <<>>)
             IN  IF scc_size_reported(p.scc)
                 THEN [p.st EXCEPT !.result = Append(@, p.scc)]
                 ELSE p.st
        ELSE st1

\* for node in graph: if node not in index: strongconnect(node)
RECURSIVE detect_loop(_, _, _, _, _)
detect_loop(g, keys, it, k, st) ==
    IF k > Len(keys) THEN st
    ELSE detect_loop(g, keys, it, k + 1,
                     IF keys[k] \notin DOMAIN st.index
                     THEN strongconnect(g, it, keys[k], st)
                     ELSE st)

detect_cycles(g, keys, it) == detect_loop(g, keys, it, 1, TarjanInit).result

\* ---------------------------------------------------------- resolve_cycles
\* variant: the pair is taken in the opposite direction
cycle_pair_reversed(cycle, j) == <<cycle[j + 1], cycle[j]>>

\* the (current, next_node) pair examined at position j of a cycle
cycle_pair(cycle, j) == <<cycle[j], cycle[j + 1]>>

\* for j in range(len(cycle) - 1): remove the first pair that is an edge
RECURSIVE break_cycle(_, _, _)
\* variant: the edge is removed in both directions
break_cycle_both(new_graph, cycle, j) ==
    IF j > Len(cycle) - 1 THEN new_graph
    ELSE LET current == cycle_pair(cycle, j)[1]
             next_node == cycle_pair(cycle, j)[2]
         IN  IF next_node \in new_graph[current]
             THEN [new_graph EXCEPT ![current] = @ \ {next_node},
                                    ![next_node] = @ \ {current}]
             ELSE break_cycle(new_graph, cycle, j + 1)

break_cycle(new_graph, cycle, j) ==
    IF j > Len(cycle) - 1 THEN new_graph
    ELSE LET current == cycle_pair(cycle, j)[1]
             next_node == cycle_pair(cycle, j)[2]
         IN  IF next_node \in new_graph[current]
             THEN [new_graph EXCEPT ![current] = @ \ {next_node}]
             ELSE break_cycle(new_graph, cycle, j + 1)

RECURSIVE break_cycles(_, _, _)
break_cycles(new_graph, cycles, i) ==
    IF i > Len(cycles) THEN new_graph
    ELSE break_cycles(break_cycle(new_graph, cycles[i], 1), cycles, i + 1)

\* returns the cycles it detected together with the graph it returns
resolve_cycles(g, keys, it) ==
    LET cycles == detect_cycles(g, keys, it)
    IN  [cycles |-> cycles,
         graph  |-> IF cycles = <<>> THEN g ELSE break_cycles(g, cycles, 1)]

\* ---------------------------------------------------- dependency_first_dfs
has_incoming_edge(acyclic_graph, node) ==
    \E u \in DOMAIN acyclic_graph : node \in acyclic_graph[u]

\* variant: the nodes without dependencies are taken for the roots
candidate_roots_leaves(acyclic_graph, keys) ==
    SelectSeq(keys, LAMBDA node : acyclic_graph[node] = {})

\* nodes without incoming edge, in key order
candidate_roots(acyclic_graph, keys) ==
    SelectSeq(keys, LAMBDA node : ~has_incoming_edge(acyclic_graph, node))

select_roots(acyclic_graph, keys) ==
    IF candidate_roots(acyclic_graph, keys) # <<>>
    THEN candidate_roots(acyclic_graph, keys)
    ELSE IF Len(keys) >= 1 THEN SubSeq(keys, 1, 1) ELSE <<>>

deps_of(acyclic_graph, node) ==
    IF node \in DOMAIN acyclic_graph THEN acyclic_graph[node] ELSE {}

RECURSIVE dfs(_, _, _)
RECURSIVE dfs_each(_, _, _, _)
\* run dfs on order[i..] in turn
dfs_each(acyclic_graph, order, i, st) ==
    IF i > Len(order) THEN st
    ELSE dfs_each(acyclic_graph, order, i + 1, dfs(acyclic_graph, order[i], st))

\* variant: the node is appended before its dependencies are visited
dfs_preorder(acyclic_graph, node, st) ==
    IF node \in st.visited THEN st
    ELSE LET st1 == [st EXCEPT !.visited = @ \cup {node},
                               !.result = Append(@, node)]
         IN  dfs_each(acyclic_graph, sorted(deps_of(acyclic_graph, node)), 1, st1)

dfs(acyclic_graph, node, st) ==
    IF node \in st.visited THEN st
    ELSE LET st1 == [st EXCEPT !.visited = @ \cup {node}]
             st2 == dfs_each(acyclic_graph, sorted(deps_of(acyclic_graph, node)), 1, st1)
         IN  [st2 EXCEPT !.result = Append(@, node)]

\* variant: the traversal ends with the roots
sweep_none(acyclic_graph, st) == st

\* the sweep over unvisited nodes when the roots did not reach every node
sweep(acyclic_graph, st) ==
    IF Len(st.result) # Cardinality(DOMAIN acyclic_graph)
    THEN dfs_each(acyclic_graph, sorted(DOMAIN acyclic_graph), 1, st)
    ELSE st

\* variant: the roots are walked in the order they were found
dependency_first_dfs_unsorted(g, keys, it) ==
    LET r == resolve_cycles(g, keys, it)
        acyclic_graph == r.graph
        root_nodes == select_roots(acyclic_graph, keys)
        st0 == [visited |-> {}, result |-> <<>>]
        st1 == dfs_each(acyclic_graph, root_nodes, 1, st0)
        st2 == sweep(acyclic_graph, st1)
    IN  [cycles |-> r.cycles, acyclic_graph |-> acyclic_graph,
         root_nodes |-> root_nodes, result |-> st2.result]

dependency_first_dfs(g, keys, it) ==
    LET r == resolve_cycles(g, keys, it)
        acyclic_graph == r.graph
        root_nodes == select_roots(acyclic_graph, keys)
        st0 == [visited |-> {}, result |-> <<>>]
        st1 == dfs_each(acyclic_graph, sorted(Range(root_nodes)), 1, st0)
        st2 == sweep(acyclic_graph, st1)
    IN  [cycles |-> r.cycles, acyclic_graph |-> acyclic_graph,
         root_nodes |-> root_nodes, result |-> st2.result]

\* ------------------------------------------------------------ state machine
VARIABLES
    graph,       \* the dependency graph: node -> set of nodes it depends on
    keys,        \* the order in which the dict yields its keys
    iter,        \* iter[node]: the order in which the set graph[node] iterates
    called,      \* the function of topo_sort.py that has returned, or "none"
    cycles,      \* the list detect_cycles returned (also inside resolve_cycles)
    new_graph,   \* the graph resolve_cycles returned (acyclic_graph in the dfs)
    root_nodes,  \* root_nodes of dependency_first_dfs after the fallback
    result,      \* the order dependency_first_dfs returned
    earlier      \* the orders returned by earlier runs over the same graph

\* state of the analyzer around the ordering functions
VARIABLES
    components,     \* the component table {id: component}, in insertion order
    repo,           \* the .py files os.walk finds under the repository root
    modules,        \* DependencyParser.modules, the module registry
    pc,             \* the step parse_repository is at
    cursor,         \* the next file to extract / the next component to resolve
    component_node, \* the local component_node of _resolve_dependencies
    raised,         \* the exception that left the operation in progress, or "none"
    stored,         \* the JSON file save_dependency_graph writes, as parsed by json.load
    before,         \* the component table as load_dependency_graph found it
    request,        \* the arguments (and the files) of a call of a single method
    returned        \* what that call returned or raised, <<>> before it is made

topoVars == <<graph, keys, iter, called, cycles, new_graph, root_nodes, result, earlier>>

toolVars == <<stored, before, request, returned>>

analyzerVars == <<components, repo, modules, pc, cursor, component_node, raised, toolVars>>

\* state of the model client's rate limiter and of the threads calling it
VARIABLES
    limiter,        \* the attributes of the RateLimiter object
    lock,           \* self.lock: the thread that holds it, 0 when it is free
    threads,        \* threads[t]: where thread t is in AliyunLLM.generate
    clock           \* what time.time() returns, in seconds

limiterVars == <<limiter, lock, threads, clock>>

vars == <<topoVars, analyzerVars, limiterVars>>

\* no rate limiter is constructed
LimiterIdle ==
    /\ limiter = <<>>
    /\ lock = 0
    /\ threads = <<>>
    /\ clock = 0

\* nothing is saved, loaded or looked up
ToolsIdle ==
    /\ stored = <<>>
    /\ before = <<>>
    /\ request = <<>>
    /\ returned = <<>>

\* no component table is involved
ParserIdle ==
    /\ ToolsIdle
    /\ repo = <<>>
    /\ modules = {}
    /\ pc = "idle"
    /\ cursor = 0
    /\ component_node = <<>>
    /\ raised = "none"

AnalyzerIdle ==
    /\ components = <<>>
    /\ ParserIdle

\* the graphs over nodes 1..n with all edge targets among the keys
Graphs ==
    UNION {{g \in [1..n -> SUBSET (1..n)] : NumEdges(g) <= MaxEdges} : n \in 0..MaxNodes}

Init ==
    /\ graph \in Graphs
    /\ keys \in Perms(DOMAIN graph)
    /\ iter \in IterOrders(graph)
    /\ called = "none"
    /\ cycles = <<>>
    /\ new_graph = <<>>
    /\ root_nodes = <<>>
    /\ result = <<>>
    /\ earlier = <<>>
    /\ AnalyzerIdle
    /\ LimiterIdle

DetectCycles ==
    /\ called = "none"
    /\ called' = "detect_cycles"
    /\ cycles' = detect_cycles(graph, keys, iter)
    /\ UNCHANGED <<graph, keys, iter, new_graph, root_nodes, result, earlier>>
    /\ UNCHANGED analyzerVars
    /\ UNCHANGED limiterVars

ResolveCycles ==
    /\ called = "none"
    /\ called' = "resolve_cycles"
    /\ LET r == resolve_cycles(graph, keys, iter)
       IN  /\ cycles' = r.cycles
           /\ new_graph' = r.graph
    /\ UNCHANGED <<graph, keys, iter, root_nodes, result, earlier>>
    /\ UNCHANGED analyzerVars
    /\ UNCHANGED limiterVars

DependencyFirstDfs ==
    /\ called = "none"
    /\ called' = "dependency_first_dfs"
    /\ LET r == dependency_first_dfs(graph, keys, iter)
       IN  /\ cycles' = r.cycles
           /\ new_graph' = r.acyclic_graph
           /\ root_nodes' = r.root_nodes
           /\ result' = r.result
    /\ UNCHANGED <<graph, keys, iter, earlier>>
    /\ UNCHANGED analyzerVars
    /\ UNCHANGED limiterVars

Next == DetectCycles \/ ResolveCycles \/ DependencyFirstDfs

Spec == Init /\ [][Next]_vars

\* A later run of generate_docstrings.py over the same repository: the graph
\* has the same nodes and edges, but it is a new dict filled in whatever order
\* the components were found, in a new interpreter with a new string hash seed.
Rerun ==
    /\ called = "dependency_first_dfs"
    /\ Len(earlier) + 1 < MaxRuns
    /\ earlier' = Append(earlier, result)
    /\ keys' \in Perms(DOMAIN graph)
    /\ iter' \in IterOrders(graph)
    /\ called' = "none"
    /\ cycles' = <<>>
    /\ new_graph' = <<>>
    /\ root_nodes' = <<>>
    /\ result' = <<>>
    /\ UNCHANGED graph
    /\ UNCHANGED analyzerVars
    /\ UNCHANGED limiterVars

NextRuns == DependencyFirstDfs \/ Rerun

SpecRuns == Init /\ [][NextRuns]_vars

TypeOK ==
    /\ called \in {"none", "detect_cycles", "resolve_cycles", "dependency_first_dfs",
                  "build_graph_from_components"}
    /\ DOMAIN graph = Range(keys)

\* ------------------------------------------------- graph-theoretic notions
\* the nodes reachable from the set S by one or more edges of g
RECURSIVE ReachClosure(_, _)
ReachClosure(g, S) ==
    LET T == S \cup UNION {g[u] : u \in S}
    IN  IF T = S THEN S ELSE ReachClosure(g, T)

ReachPlus(g, u) == ReachClosure(g, g[u])

\* g has a directed cycle (a self-loop is one)
IsCyclic(g) == \E u \in DOMAIN g : u \in ReachPlus(g, u)

\* g has a directed cycle through two distinct nodes
HasProperCycle(g) ==
    \E u, v \in DOMAIN g : u # v /\ v \in ReachPlus(g, u) /\ u \in ReachPlus(g, v)

\* the strongly connected component of u
SCCOf(g, u) == {u} \cup {v \in ReachPlus(g, u) : u \in ReachPlus(g, v)}

\* the edges of g as pairs <<source, target>>
Edges(g) == {<<u, v>> \in (DOMAIN g) \X (DOMAIN g) : v \in g[u]}

Before(order, v, u) ==
    /\ IndexOf(order, v) > 0
    /\ IndexOf(order, u) > 0
    /\ IndexOf(order, v) < IndexOf(order, u)

DfsDone == called = "dependency_first_dfs"

\* ------------------------------------------------------------------ claims

\* C1: for every graph whose edge targets are keys (cyclic, rootless and
\* empty ones included) the order returned by dependency_first_dfs contains
\* every node exactly once: its length is the node count, it has no
\* duplicates, and its members are the nodes.
C1_Permutation ==
    DfsDone =>
        /\ Len(result) = Cardinality(DOMAIN graph)
        /\ \A i, j \in 1..Len(result) : i # j => result[i] # result[j]
        /\ Range(result) = DOMAIN graph

\* C1 witness: a run in which a node is reached by no root and only the
\* sweep can have emitted it.
C1_Witness ==
    /\ DfsDone
    /\ Len(result) >= 2
    /\ \E node \in DOMAIN graph :
           node \notin Range(root_nodes) \cup ReachClosure(new_graph, Range(root_nodes))

\* C2: for an acyclic graph every node comes after each of its dependencies.
C2_DependencyFirst ==
    (DfsDone /\ ~IsCyclic(graph)) =>
        \A u \in DOMAIN graph : \A v \in graph[u] : Before(result, v, u)

\* C2 witness: an acyclic graph with a chain of two edges has been ordered.
C2_Witness ==
    /\ DfsDone
    /\ ~IsCyclic(graph)
    /\ \E u \in DOMAIN graph : \E v \in graph[u] : graph[v] # {}

\* C3 (as claimed): every edge u -> v left in the graph returned by
\* resolve_cycles has v before u in the returned order.
C3_SurvivingEdgesOrdered ==
    DfsDone =>
        \A u \in DOMAIN new_graph : \A v \in new_graph[u] : Before(result, v, u)

\* C4 (as claimed): the number of input edges missing from the result of
\* resolve_cycles equals the number of reported cycles.
C4_OneEdgePerCycle ==
    called = "resolve_cycles" =>
        Cardinality(Edges(graph) \ Edges(new_graph)) = Len(cycles)

\* C5: resolve_cycles keeps the node set, adds no edge, and every edge it
\* removes is a consecutive pair (c[j], c[j+1]) of a reported cycle.
C5_OnlyCyclePairsRemoved ==
    called = "resolve_cycles" =>
        /\ DOMAIN new_graph = DOMAIN graph
        /\ Edges(new_graph) \subseteq Edges(graph)
        /\ \A e \in Edges(graph) \ Edges(new_graph) :
               \E i \in 1..Len(cycles) : \E j \in 1..(Len(cycles[i]) - 1) :
                   cycles[i][j] = e[1] /\ cycles[i][j + 1] = e[2]

\* C5 witness: resolve_cycles has removed an edge.
C5_Witness ==
    /\ called = "resolve_cycles"
    /\ Edges(graph) \ Edges(new_graph) # {}

\* C6: on an acyclic graph detect_cycles returns the empty list.
C6_AcyclicNoCycles ==
    (called = "detect_cycles" /\ ~IsCyclic(graph)) => cycles = <<>>

\* C6 witness: detect_cycles has run on an acyclic graph in which a node is
\* reached again after its component was closed.
C6_Witness ==
    /\ called = "detect_cycles"
    /\ ~IsCyclic(graph)
    /\ \E v \in DOMAIN graph : Cardinality({u \in DOMAIN graph : v \in graph[u]}) >= 2

TwoNodeCycles ==
    {<<a, b>> \in (DOMAIN graph) \X (DOMAIN graph) :
        a < b /\ b \in graph[a] /\ a \in graph[b] /\ SCCOf(graph, a) = {a, b}}

\* C8: when A and B depend on each other and form a component of exactly
\* those two nodes, one reported cycle consists of exactly A and B, exactly
\* one of A -> B and B -> A is left by resolve_cycles, and the order has the
\* surviving edge's target before its source, for every key order.
C8_TwoNodeCycle ==
    DfsDone =>
        \A p \in TwoNodeCycles :
            /\ Cardinality({i \in 1..Len(cycles) : Range(cycles[i]) = {p[1], p[2]}}) = 1
            /\ \A i \in 1..Len(cycles) :
                   Range(cycles[i]) = {p[1], p[2]} => Len(cycles[i]) = 2
            /\ (p[2] \in new_graph[p[1]]) # (p[1] \in new_graph[p[2]])
            /\ p[2] \in new_graph[p[1]] => Before(result, p[2], p[1])
            /\ p[1] \in new_graph[p[2]] => Before(result, p[1], p[2])

\* C8 witness: such a pair has been ordered with the key order starting at
\* the larger id, in a graph with a third node depending on the pair.
C8_Witness ==
    /\ DfsDone
    /\ \E p \in TwoNodeCycles :
           /\ IndexOf(keys, p[2]) < IndexOf(keys, p[1])
           /\ \E w \in DOMAIN graph : w \notin {p[1], p[2]} /\ graph[w] \cap {p[1], p[2]} # {}

\* C9 (as claimed): every run over the same graph returns the same order,
\* whatever the key order and the iteration order of the dependency sets.
C9_SameOrderEveryRun ==
    (DfsDone /\ earlier # <<>>) => \A i \in 1..Len(earlier) : result = earlier[i]

\* the nodes of g that are the target of no edge
NoIncoming(g) == {node \in DOMAIN g : ~\E u \in DOMAIN g : node \in g[u]}

\* C10 (as claimed): the root set holds every node without incoming edge and
\* no node with an incoming edge.
C10_RootsExact ==
    DfsDone => Range(root_nodes) = NoIncoming(new_graph)

\* C10 (amended): the root set holds every node without incoming edge; it
\* holds a node with an incoming edge only when the graph is not empty and
\* every node has an incoming edge, and then it is the first key alone.
C10_RootsOrFallback ==
    DfsDone =>
        /\ NoIncoming(new_graph) \subseteq Range(root_nodes)
        /\ NoIncoming(new_graph) # {} => Range(root_nodes) = NoIncoming(new_graph)
        /\ (NoIncoming(new_graph) = {} /\ keys # <<>>) => root_nodes = <<keys[1]>>
        /\ keys = <<>> => root_nodes = <<>>

\* C10 witness: roots have been selected in a graph that has both nodes
\* without and nodes with incoming edges after cycle breaking.
C10_Witness ==
    /\ DfsDone
    /\ cycles # <<>>
    /\ NoIncoming(new_graph) # {}
    /\ NoIncoming(new_graph) # DOMAIN new_graph

\* =========================================================================
\* build_graph_from_components
\* =========================================================================
\* The component table is a dict in insertion order: a sequence of components
\* with distinct ids.  Here a component is its id and its depends_on set.

component_ids(table) == {table[k].id : k \in 1..Len(table)}

component_of(table, id) == table[CHOOSE k \in 1..Len(table) : table[k].id = id]

\* variant: every recorded dependency becomes an edge
kept_dependencies_all(ids, depends_on) == depends_on

\* for dep_id in component.depends_on: if dep_id in components: add
kept_dependencies(ids, depends_on) == {dep_id \in depends_on : dep_id \in ids}

build_graph_from_components(table) ==
    [keys  |-> [k \in 1..Len(table) |-> table[k].id],
     graph |-> [comp_id \in component_ids(table) |->
                   kept_dependencies(component_ids(table),
                                     component_of(table, comp_id).depends_on)]]

\* the tables of n components 1..n whose depends_on draws on the ids 1..n and
\* on n + 1, an id that names no component, listed in the insertion order
IsComponentTable(table) ==
    \E n \in 0..MaxNodes :
        \E deps \in [1..n -> SUBSET (1..(n + 1))] :
            /\ NumEdges(deps) <= MaxEdges
            /\ \E order \in Perms(1..n) :
                   table = [k \in 1..n |-> [id |-> order[k], depends_on |-> deps[order[k]]]]

TopoIdle ==
    /\ graph = <<>>
    /\ keys = <<>>
    /\ iter = <<>>
    /\ called = "none"
    /\ cycles = <<>>
    /\ new_graph = <<>>
    /\ root_nodes = <<>>
    /\ result = <<>>
    /\ earlier = <<>>

InitBuild ==
    /\ TopoIdle
    /\ LimiterIdle
    /\ ParserIdle
    /\ IsComponentTable(components)

\* graph = build_graph_from_components(components)
BuildGraph ==
    /\ called = "none"
    /\ called' = "build_graph_from_components"
    /\ LET r == build_graph_from_components(components)
       IN  /\ graph' = r.graph
           /\ keys' = r.keys
    /\ UNCHANGED <<iter, cycles, new_graph, root_nodes, result, earlier>>
    /\ UNCHANGED analyzerVars
    /\ UNCHANGED limiterVars

NextBuild == BuildGraph

SpecBuild == InitBuild /\ [][NextBuild]_vars

GraphBuilt == called = "build_graph_from_components"

\* C11 (as claimed): no component id is a member of its own dependency set in
\* the graph, also when the component's depends_on holds its own id.
C11_NoSelfLoop ==
    GraphBuilt => \A comp_id \in DOMAIN graph : comp_id \notin graph[comp_id]

\* C12: the key set of the graph is the set of component ids and every member
\* of every dependency set is a key; a dependency set holds only ids recorded
\* in the component's depends_on.
C12_GraphClosed ==
    GraphBuilt =>
        /\ DOMAIN graph = component_ids(components)
        /\ Range(keys) = component_ids(components)
        /\ Len(keys) = Len(components)
        /\ \A comp_id \in DOMAIN graph :
               /\ graph[comp_id] \subseteq DOMAIN graph
               /\ graph[comp_id] \subseteq component_of(components, comp_id).depends_on

\* C12 witness: a graph was built from a table in which a component depends
\* on another component and on an id that names no component.
C12_Witness ==
    /\ GraphBuilt
    /\ \E k \in 1..Len(components) :
           /\ components[k].depends_on \ component_ids(components) # {}
           /\ graph[components[k].id] # {}

\* =========================================================================
\* DependencyParser.parse_repository
\* =========================================================================
\* A syntax tree node is a record [type, name, body].  "Str" is an expression
\* statement holding a bare string literal (name is its text), "Call" an
\* expression statement calling the bare identifier name, "If" a compound
\* statement; ClassDef, FunctionDef and Module are as in the ast module.
\* An id "a.b.c" is the sequence of its dotted segments <<"a", "b", "c">>.

Str(text) == [type |-> "Str", name |-> text, body |-> <<>>]
Call(name) == [type |-> "Call", name |-> name, body |-> <<>>]
If(body) == [type |-> "If", name |-> "", body |-> body]
FunctionDef(name, body) == [type |-> "FunctionDef", name |-> name, body |-> body]
ClassDef(name, body) == [type |-> "ClassDef", name |-> name, body |-> body]
Module(body) == [type |-> "Module", name |-> "", body |-> body]

\* ast.walk after add_parent_to_nodes: breadth first, each node with the type
\* of its parent
RECURSIVE walk(_)
walk(queue) ==
    IF queue = <<>> THEN <<>>
    ELSE LET entry == Head(queue)
             children == [i \in 1..Len(entry.node.body) |->
                             [node |-> entry.node.body[i], parent |-> entry.node.type]]
         IN  <<entry>> \o walk(Tail(queue) \o children)

\* len(body) > 0 and body[0] is an Expr holding a str Constant
first_is_string(body) == Len(body) > 0 /\ body[1].type = "Str"

\* _get_docstring: the first bare string literal among the body's statements
get_docstring(node) ==
    IF node.type \in {"FunctionDef", "ClassDef"}
       /\ \E i \in 1..Len(node.body) : node.body[i].type = "Str"
    THEN node.body[CHOOSE i \in 1..Len(node.body) :
                       /\ node.body[i].type = "Str"
                       /\ \A j \in 1..(i - 1) : node.body[j].type # "Str"].name
    ELSE ""

\* self.components[id] = component
dict_set(table, component) ==
    IF component.id \in component_ids(table)
    THEN [k \in 1..Len(table) |->
             IF table[k].id = component.id THEN component ELSE table[k]]
    ELSE Append(table, component)

\* _file_to_module_path: extension stripped, separators replaced by dots
file_to_module_path(relative_path) == Append(relative_path.dirs, relative_path.stem)

CodeComponent(id, node, component_type, relative_path, has_docstring, docstring) ==
    [id |-> id, node |-> node, component_type |-> component_type,
     relative_path |-> relative_path, depends_on |-> {},
     has_docstring |-> has_docstring, docstring |-> docstring]

\* the body whose first statement decides method_has_docstring
method_docstring_body(class_node, item) == class_node.body

\* the methods of one class: for item in node.body
RECURSIVE collect_methods(_, _, _, _, _)
collect_methods(table, class_node, class_id, relative_path, i) ==
    IF i > Len(class_node.body) THEN table
    ELSE LET item == class_node.body[i]
             method_has_docstring == first_is_string(method_docstring_body(class_node, item))
             method_docstring == IF method_has_docstring THEN get_docstring(item) ELSE ""
         IN  collect_methods(
                 IF item.type = "FunctionDef"
                 THEN dict_set(table, CodeComponent(Append(class_id, item.name), item, "method",
                                                    relative_path, method_has_docstring,
                                                    method_docstring))
                 ELSE table,
                 class_node, class_id, relative_path, i + 1)

\* what evaluating the docstring of a top-level function does: the code calls
\* self._get_string, a method DependencyParser does not have
function_docstring(node, has_docstring) ==
    IF has_docstring THEN [raised |-> "AttributeError", docstring |-> ""]
    ELSE [raised |-> "none", docstring |-> ""]

\* one iteration of the loop over ast.walk(tree) in _collect_components
collect_node(st, entry, relative_path, module_path) ==
    LET node == entry.node IN
    IF node.type = "ClassDef"
    THEN LET class_id == Append(module_path, node.name)
             has_docstring == first_is_string(node.body)
             docstring == IF has_docstring THEN get_docstring(node) ELSE ""
             table1 == dict_set(st.components,
                                CodeComponent(class_id, node, "class", relative_path,
                                              has_docstring, docstring))
         IN  [st EXCEPT !.components =
                 collect_methods(table1, node, class_id, relative_path, 1)]
    ELSE IF node.type = "FunctionDef" /\ entry.parent = "Module"
    THEN LET func_id == Append(module_path, node.name)
             has_docstring == first_is_string(node.body)
             d == function_docstring(node, has_docstring)
         IN  IF d.raised # "none" THEN [st EXCEPT !.raised = d.raised]
             ELSE [st EXCEPT !.components =
                      dict_set(@, CodeComponent(func_id, node, "function", relative_path,
                                                has_docstring, d.docstring))]
    ELSE st

RECURSIVE collect_loop(_, _, _, _, _)
collect_loop(st, nodes, i, relative_path, module_path) ==
    IF i > Len(nodes) \/ st.raised # "none" THEN st
    ELSE collect_loop(collect_node(st, nodes[i], relative_path, module_path),
                      nodes, i + 1, relative_path, module_path)

collect_components(table, tree, relative_path, module_path) ==
    collect_loop([components |-> table, raised |-> "none"],
                 walk(<<[node |-> tree, parent |-> "none"]>>), 1, relative_path, module_path)

\* variant: the error of an unparseable file leaves _parse_file
parse_file_fatal(table, file, module_path) ==
    IF file.parseable
    THEN collect_components(table, file.tree, file.relative_path, module_path)
    ELSE [components |-> table, raised |-> "SyntaxError"]

\* _parse_file: a SyntaxError or UnicodeDecodeError is logged and swallowed
parse_file(table, file, module_path) ==
    IF file.parseable
    THEN collect_components(table, file.tree, file.relative_path, module_path)
    ELSE [components |-> table, raised |-> "none"]

\* ---------------------------------------------------- _resolve_dependencies
\* The local component_node is <<>> while the local is unbound and <<node>> once bound.

\* function: every matching child of the module is assigned, the last one stays
RECURSIVE locate_function(_, _, _, _)
locate_function(tree, name, i, current_node) ==
    IF i > Len(tree.body) THEN current_node
    ELSE locate_function(tree, name, i + 1,
                         IF tree.body[i].type = "FunctionDef" /\ tree.body[i].name = name
                         THEN <<tree.body[i]>>
                         ELSE current_node)

\* class: the first matching child of the module, then break
locate_class(tree, name, current_node) ==
    IF \E i \in 1..Len(tree.body) : tree.body[i].type = "ClassDef" /\ tree.body[i].name = name
    THEN <<tree.body[CHOOSE i \in 1..Len(tree.body) :
                         /\ tree.body[i].type = "ClassDef" /\ tree.body[i].name = name
                         /\ \A j \in 1..(i - 1) :
                                ~(tree.body[j].type = "ClassDef" /\ tree.body[j].name = name)]>>
    ELSE current_node

\* the items of a class body the inner loop looks at before its break
examined_items(class_node) == SubSeq(class_node.body, 1, 1)

\* method: in every child class of that name only the examined items are tried
RECURSIVE locate_method(_, _, _, _, _)
locate_method(tree, class_name, method_name, i, current_node) ==
    IF i > Len(tree.body) THEN current_node
    ELSE LET node == tree.body[i]
             items == examined_items(node)
             found == {j \in 1..Len(items) :
                          items[j].type = "FunctionDef" /\ items[j].name = method_name}
         IN  locate_method(tree, class_name, method_name, i + 1,
                           IF node.type = "ClassDef" /\ node.name = class_name /\ found # {}
                           THEN <<items[CHOOSE j \in found : \A h \in found : j <= h]>>
                           ELSE current_node)

\* the value of current_node after the search for one component
locate(component, tree, current_node) ==
    LET id == component.id IN
    IF component.component_type = "function"
    THEN locate_function(tree, id[Len(id)], 1, current_node)
    ELSE IF component.component_type = "class"
    THEN locate_class(tree, id[Len(id)], current_node)
    ELSE IF component.component_type = "method"
    THEN locate_method(tree, id[Len(id) - 1], id[Len(id)], 1, current_node)
    ELSE current_node

\* the identifiers DependencyCollector.visit passes to _add_dependency
RECURSIVE referenced_names(_)
referenced_names(node) ==
    IF node.type = "Call" THEN {node.name}
    ELSE UNION {referenced_names(node.body[i]) : i \in 1..Len(node.body)}

\* _add_dependency for a name that is neither built-in, excluded, local nor
\* imported: the sibling symbol of the current module
add_dependency(current_module, name) == Append(current_module, name)

\* dep in self.components or dep.split('.', 1)[0] in self.modules
dependency_retained(table, registry, dep) ==
    dep \in component_ids(table) \/ <<dep[1]>> \in registry

file_of(files, relative_path) ==
    files[CHOOSE i \in 1..Len(files) : files[i].relative_path = relative_path]

\* one iteration of the loop over self.components.items()
resolve_component(table, registry, files, k, current_node) ==
    LET component == table[k]
        tree == file_of(files, component.relative_path).tree
        module_path == file_to_module_path(component.relative_path)
        located == locate(component, tree, current_node)
    IN  IF located = <<>>
        THEN [components |-> table, component_node |-> located,
              raised |-> "UnboundLocalError"]
        ELSE LET dependencies == {add_dependency(module_path, name) :
                                     name \in referenced_names(located[1])}
                 updated == component.depends_on \cup dependencies
                 retained == {dep \in updated : dependency_retained(table, registry, dep)}
             IN  [components |-> [table EXCEPT ![k].depends_on = retained],
                  component_node |-> located, raised |-> "none"]

\* ---------------------------------------------- _add_class_method_dependencies
\* variant: the constructor is attached like every other method
method_attached_all(method_name) == TRUE

\* if method_name != "__init__": class_methods[class_id].append(component_id)
method_attached(method_name) == method_name # "__init__"

\* class_methods[class_id] for the component with that id
class_methods_of(table, class_id) ==
    {table[k].id : k \in {h \in 1..Len(table) :
        /\ table[h].component_type = "method"
        /\ Len(table[h].id) >= 2
        /\ SubSeq(table[h].id, 1, Len(table[h].id) - 1) = class_id
        /\ method_attached(table[h].id[Len(table[h].id)])}}

add_class_method_dependencies(table) ==
    [k \in 1..Len(table) |->
        [table[k] EXCEPT !.depends_on = @ \cup class_methods_of(table, table[k].id)]]

\* ------------------------------------------------------------ parse_repository
\* variant: a module is registered only when its file could be parsed
register_module_parsed(registry, file, module_path) ==
    IF file.parseable THEN registry \cup {module_path} ELSE registry

\* self.modules.add(module_path), before _parse_file is called
register_module(registry, file, module_path) == registry \cup {module_path}

\* the statements the source files are made of
helper_plain == FunctionDef("helper", <<Call("helper")>>)
helper_documented == FunctionDef("helper", <<Str("helper doc"), Call("helper")>>)
helper_nested == FunctionDef("helper", <<FunctionDef("inner", <<Call("other")>>)>>)
run_plain == FunctionDef("run", <<Call("helper")>>)
run_documented == FunctionDef("run", <<Str("run doc"), Call("helper")>>)
init_plain == FunctionDef("__init__", <<Call("Foo")>>)

MethodLists ==
    {<<run_plain>>, <<run_documented>>, <<init_plain, run_plain>>, <<run_plain, init_plain>>}

Classes ==
    {ClassDef("Foo", prefix \o methods) :
        prefix \in {<<>>, <<Str("Foo doc")>>}, methods \in MethodLists}

nested_class == If(<<ClassDef("Foo", <<run_plain>>)>>)

Trees ==
    {Module(<<>>)}
    \cup {Module(<<statement>>) :
            statement \in {helper_plain, helper_documented, helper_nested, nested_class}
                          \cup Classes}
    \cup {Module(<<helper_plain, class>>) : class \in Classes \cup {nested_class}}

\* what a .py file holds: a tree, or text ast.parse or the decoder rejects
FileContents ==
    {[parseable |-> TRUE, tree |-> tree] : tree \in Trees}
    \cup {[parseable |-> FALSE, tree |-> Module(<<>>)]}

\* the relative paths of the files, in the order os.walk yields them
Paths ==
    <<[dirs |-> <<>>, stem |-> "a"], [dirs |-> <<"pkg">>, stem |-> "b"],
      [dirs |-> <<>>, stem |-> "c"], [dirs |-> <<"pkg">>, stem |-> "d"]>>

MaxFiles == 2

\* parse_repository has been called on a parser just constructed
InitParse ==
    /\ TopoIdle
    /\ LimiterIdle
    /\ components = <<>>
    /\ modules = {}
    /\ pc = "extract"
    /\ cursor = 1
    /\ component_node = <<>>
    /\ raised = "none"
    /\ ToolsIdle
    /\ \E n \in 0..MaxFiles :
           \E contents \in [1..n -> FileContents] :
               repo = [i \in 1..n |->
                          [relative_path |-> Paths[i], parseable |-> contents[i].parseable,
                           tree |-> contents[i].tree]]

\* one iteration of the os.walk loop
ExtractFile ==
    /\ pc = "extract"
    /\ cursor <= Len(repo)
    /\ LET file == repo[cursor]
           module_path == file_to_module_path(file.relative_path)
           r == parse_file(components, file, module_path)
       IN  /\ modules' = register_module(modules, file, module_path)
           /\ components' = r.components
           /\ raised' = r.raised
           /\ pc' = IF r.raised = "none" THEN "extract" ELSE "raised"
           /\ cursor' = IF r.raised = "none" THEN cursor + 1 ELSE cursor
    /\ UNCHANGED <<repo, component_node, toolVars>>
    /\ UNCHANGED topoVars
    /\ UNCHANGED limiterVars

\* the walk is over: self._resolve_dependencies() is entered
StartResolve ==
    /\ pc = "extract"
    /\ cursor > Len(repo)
    /\ pc' = "resolve"
    /\ cursor' = 1
    /\ UNCHANGED <<components, repo, modules, component_node, raised, toolVars>>
    /\ UNCHANGED topoVars
    /\ UNCHANGED limiterVars

\* one iteration of the loop of _resolve_dependencies
ResolveComponent ==
    /\ pc = "resolve"
    /\ cursor <= Len(components)
    /\ LET r == resolve_component(components, modules, repo, cursor, component_node)
       IN  /\ components' = r.components
           /\ component_node' = r.component_node
           /\ raised' = r.raised
           /\ pc' = IF r.raised = "none" THEN "resolve" ELSE "raised"
           /\ cursor' = IF r.raised = "none" THEN cursor + 1 ELSE cursor
    /\ UNCHANGED <<repo, modules, toolVars>>
    /\ UNCHANGED topoVars
    /\ UNCHANGED limiterVars

\* self._add_class_method_dependencies(), then parse_repository returns
AddClassMethodDependencies ==
    /\ pc = "resolve"
    /\ cursor > Len(components)
    /\ components' = add_class_method_dependencies(components)
    /\ pc' = "done"
    /\ UNCHANGED <<repo, modules, cursor, component_node, raised, toolVars>>
    /\ UNCHANGED topoVars
    /\ UNCHANGED limiterVars

NextParse == ExtractFile \/ StartResolve \/ ResolveComponent \/ AddClassMethodDependencies

SpecParse == InitParse /\ [][NextParse]_vars

\* the module path of every source file found
ModulePaths == {file_to_module_path(repo[i].relative_path) : i \in 1..Len(repo)}

ExtractionDone == pc = "resolve" /\ cursor = 1
ResolutionDone == pc = "resolve" /\ cursor > Len(components)

\* C13: no component has a dependency before extraction has finished for
\* every file, a dependency set changes only when the registry holds the
\* module path of every source file, and the registry changes in no step of
\* resolution or class-method attachment.
C13_ExtractionBeforeResolution ==
    /\ [](/\ (pc = "extract" \/ raised = "AttributeError") =>
                \A k \in 1..Len(components) : components[k].depends_on = {}
          /\ (pc \in {"resolve", "done"} \/ raised = "UnboundLocalError") =>
                modules = ModulePaths)
    /\ [][/\ (\E k \in 1..Len(components') :
                 components'[k].depends_on #
                     (IF k <= Len(components) THEN components[k].depends_on ELSE {}))
             => (pc = "resolve" /\ modules = ModulePaths)
          /\ pc # "extract" => modules' = modules]_vars

\* C13 witness: resolution has handled a component of a repository of two
\* files, one of which could not be parsed.
C13_Witness ==
    /\ pc = "resolve"
    /\ cursor > 1
    /\ Len(repo) >= 2
    /\ \E i \in 1..Len(repo) : ~repo[i].parseable

\* the os.walk loop of parse_repository over the files from position i on
RECURSIVE extract_files(_, _, _)
extract_files(st, files, i) ==
    IF i > Len(files) \/ st.raised # "none" THEN st
    ELSE extract_files(parse_file(st.components, files[i],
                                  file_to_module_path(files[i].relative_path)),
                       files, i + 1)

\* the repository without the files that fail to parse
ParsedFiles == SelectSeq(repo, LAMBDA file : file.parseable)

\* extraction is over, by reaching the end of the walk or by an exception
ExtractionOver == ExtractionDone \/ (pc = "raised" /\ raised # "UnboundLocalError")

\* C14: a file that fails to parse raises nothing out of extraction, leaves
\* no component of its own and has its module path registered, and the
\* component table after extraction is the one extraction gives for the
\* repository without the failing files.
C14_FailingFileSkipped ==
    ExtractionOver =>
        LET reference == extract_files([components |-> <<>>, raised |-> "none"], ParsedFiles, 1)
        IN  /\ raised = reference.raised
            /\ components = reference.components
            /\ \A i \in 1..Len(repo) :
                   (~repo[i].parseable /\ (ExtractionDone \/ i < cursor)) =>
                       /\ file_to_module_path(repo[i].relative_path) \in modules
                       /\ \A k \in 1..Len(components) :
                              components[k].relative_path # repo[i].relative_path

\* C14 witness: extraction has finished for a repository whose first file
\* failed to parse and whose second file gave components.
C14_Witness ==
    /\ ExtractionDone
    /\ Len(repo) >= 2
    /\ ~repo[1].parseable
    /\ components # <<>>

\* the search of _resolve_dependencies finds the component's node in the
\* re-parsed tree of its file
Relocatable(component) ==
    locate(component, file_of(repo, component.relative_path).tree, <<>>) # <<>>

\* C15 (as claimed): resolution raises nothing, and when it has ended every
\* component whose node the search does not find has an empty depends_on.
C15_UnlocatedKeepsEmpty ==
    /\ raised # "UnboundLocalError"
    /\ ResolutionDone =>
           \A k \in 1..Len(components) :
               ~Relocatable(components[k]) => components[k].depends_on = {}

\* the ids of the Method components defined directly in the class with this
\* id, the method named __init__ left out
OwnMethods(class_id) ==
    {components[k].id : k \in {h \in 1..Len(components) :
        /\ components[h].component_type = "method"
        /\ components[h].id = Append(class_id, components[h].id[Len(components[h].id)])
        /\ components[h].id[Len(components[h].id)] # "__init__"}}

\* C16: when parse_repository has returned, the depends_on of every Class
\* component holds the id of each of its own methods except __init__, and
\* the attachment step adds to a component nothing but those ids.
C16_ClassDependsOnMethods ==
    /\ [](pc = "done" =>
             \A k \in 1..Len(components) :
                 components[k].component_type = "class" =>
                     OwnMethods(components[k].id) \subseteq components[k].depends_on)
    /\ [][(pc = "resolve" /\ pc' = "done") =>
             /\ Len(components') = Len(components)
             /\ \A k \in 1..Len(components) :
                    /\ components[k].depends_on \subseteq components'[k].depends_on
                    /\ components'[k].depends_on \ components[k].depends_on
                           \subseteq OwnMethods(components[k].id)]_vars

\* C16 witness: parse_repository has returned a class that has the method
\* __init__ and another method.
C16_Witness ==
    /\ pc = "done"
    /\ \E k \in 1..Len(components) :
           /\ components[k].component_type = "class"
           /\ OwnMethods(components[k].id) # {}
           /\ \E h \in 1..Len(components) :
                  components[h].id = Append(components[k].id, "__init__")

\* C20 (as claimed): has_docstring of a component is true exactly when the
\* first statement of the component's own body is a bare string literal, and
\* docstring is that literal's text, or empty when has_docstring is false.
C20_DocstringOfOwnBody ==
    \A k \in 1..Len(components) :
        /\ components[k].has_docstring = first_is_string(components[k].node.body)
        /\ components[k].docstring =
               IF components[k].has_docstring THEN components[k].node.body[1].name ELSE ""

\* =========================================================================
\* save_dependency_graph / load_dependency_graph
\* =========================================================================
\* Here a component carries all the fields of the dataclass.  A record of the
\* JSON file is a function from field names to values, a JSON list a sequence.

\* to_dict, with list(self.depends_on) in the order the set happens to have
to_dict(component, depends_on_list) ==
    [id |-> component.id,
     component_type |-> component.component_type,
     file_path |-> component.file_path,
     relative_path |-> component.relative_path,
     depends_on |-> depends_on_list,
     start_line |-> component.start_line,
     end_line |-> component.end_line,
     has_docstring |-> component.has_docstring,
     docstring |-> component.docstring]

\* data.get(key, default)
dict_get(data, key, default) == IF key \in DOMAIN data THEN data[key] ELSE default

\* the fields from_dict reads with data[key]
SubscriptedFields == {"id", "component_type", "file_path", "relative_path"}

\* variant: the line numbers are not read back
from_dict_no_lines(data) ==
    [id |-> data["id"],
     node |-> "None",
     component_type |-> data["component_type"],
     file_path |-> data["file_path"],
     relative_path |-> data["relative_path"],
     depends_on |-> Range(dict_get(data, "depends_on", <<>>)),
     source_code |-> "None",
     start_line |-> 0,
     end_line |-> 0,
     has_docstring |-> dict_get(data, "has_docstring", FALSE),
     docstring |-> dict_get(data, "docstring", "")]

\* from_dict, for data that has the subscripted fields
from_dict(data) ==
    [id |-> data["id"],
     node |-> "None",
     component_type |-> data["component_type"],
     file_path |-> data["file_path"],
     relative_path |-> data["relative_path"],
     depends_on |-> Range(dict_get(data, "depends_on", <<>>)),
     source_code |-> "None",
     start_line |-> dict_get(data, "start_line", 0),
     end_line |-> dict_get(data, "end_line", 0),
     has_docstring |-> dict_get(data, "has_docstring", FALSE),
     docstring |-> dict_get(data, "docstring", "")]

\* the file save_dependency_graph writes when the directory can be made
save_dependency_graph(table, lists) ==
    [k \in 1..Len(table) |-> [key |-> table[k].id, data |-> to_dict(table[k], lists[k])]]

\* data[key] raises KeyError
record_loadable(data) == SubscriptedFields \subseteq DOMAIN data

\* variant: the records before the first unreadable one replace the table
load_dependency_graph_partial(table, file) ==
    IF \E k \in 1..Len(file) : ~record_loadable(file[k].data)
    THEN LET bad == CHOOSE k \in 1..Len(file) :
                        /\ ~record_loadable(file[k].data)
                        /\ \A h \in 1..(k - 1) : record_loadable(file[h].data)
         IN  [raised |-> "KeyError",
              components |-> [k \in 1..(bad - 1) |-> from_dict(file[k].data)]]
    ELSE [raised |-> "none", components |-> [k \in 1..Len(file) |-> from_dict(file[k].data)]]

\* load_dependency_graph: self.components is assigned once the whole dict
\* comprehension has been evaluated
load_dependency_graph(table, file) ==
    IF \E k \in 1..Len(file) : ~record_loadable(file[k].data)
    THEN [raised |-> "KeyError", components |-> table]
    ELSE [raised |-> "none", components |-> [k \in 1..Len(file) |-> from_dict(file[k].data)]]

MaxRecords == 2

\* ids, types and paths of the components of a table, by position
RecordIds == <<"m.f", "m.C", "m.C.run", "m.g">>
RecordTypes == <<"function", "class", "method", "function">>

\* a table of up to MaxRecords components with all their metadata
IsMetadataTable(table) ==
    \E n \in 0..MaxRecords :
        \E deps \in [1..n -> SUBSET {"m.f", "m.g"}] :
            \E lines \in [1..n -> {<<0, 0>>, <<3, 7>>}] :
                \E documented \in [1..n -> BOOLEAN] :
                    table = [k \in 1..n |->
                                [id |-> RecordIds[k],
                                 node |-> "ast node",
                                 component_type |-> RecordTypes[k],
                                 file_path |-> "/repo/m.py",
                                 relative_path |-> "m.py",
                                 depends_on |-> deps[k],
                                 source_code |-> "source",
                                 start_line |-> lines[k][1],
                                 end_line |-> lines[k][2],
                                 has_docstring |-> documented[k],
                                 docstring |-> IF documented[k] THEN "doc" ELSE ""]]

InitPersist ==
    /\ TopoIdle
    /\ LimiterIdle
    /\ IsMetadataTable(components)
    /\ repo = <<>>
    /\ modules = {}
    /\ pc = "table"
    /\ cursor = 0
    /\ component_node = <<>>
    /\ raised = "none"
    /\ ToolsIdle

\* parser.save_dependency_graph(output_path); os.makedirs of the empty
\* dirname of a bare file name raises
SaveDependencyGraph ==
    /\ pc = "table"
    /\ \E dirname \in {"", "output"} :
           IF dirname = ""
           THEN /\ raised' = "FileNotFoundError"
                /\ pc' = "raised"
                /\ UNCHANGED stored
           ELSE /\ \E lists \in [1..Len(components) ->
                                   UNION {Perms(components[k].depends_on) :
                                             k \in 1..Len(components)}] :
                       /\ \A k \in 1..Len(components) :
                              lists[k] \in Perms(components[k].depends_on)
                       /\ stored' = save_dependency_graph(components, lists)
                /\ pc' = "saved"
                /\ UNCHANGED raised
    /\ UNCHANGED <<components, repo, modules, cursor, component_node, before, request, returned>>
    /\ UNCHANGED topoVars
    /\ UNCHANGED limiterVars

\* the file is not what was saved: a record has lost one of its fields
DamageFile ==
    /\ pc = "saved"
    /\ \E k \in 1..Len(stored) :
           \E field \in DOMAIN stored[k].data :
               stored' = [stored EXCEPT ![k].data =
                             [f \in (DOMAIN stored[k].data) \ {field} |-> stored[k].data[f]]]
    /\ pc' = "damaged"
    /\ UNCHANGED <<components, repo, modules, cursor, component_node, raised, before,
                   request, returned>>
    /\ UNCHANGED topoVars
    /\ UNCHANGED limiterVars

\* parser.load_dependency_graph(input_path)
LoadDependencyGraph ==
    /\ pc \in {"saved", "damaged"}
    /\ before' = components
    /\ LET r == load_dependency_graph(components, stored)
       IN  /\ components' = r.components
           /\ raised' = r.raised
           /\ pc' = IF r.raised = "none" THEN "loaded" ELSE "raised"
    /\ UNCHANGED <<repo, modules, cursor, component_node, stored, request, returned>>
    /\ UNCHANGED topoVars
    /\ UNCHANGED limiterVars

NextPersist == SaveDependencyGraph \/ DamageFile \/ LoadDependencyGraph

SpecPersist == InitPersist /\ [][NextPersist]_vars

\* the fields to_dict writes
MetadataFields ==
    {"id", "component_type", "file_path", "relative_path", "depends_on",
     "start_line", "end_line", "has_docstring", "docstring"}

\* the file holds every field of every record
Intact == \A k \in 1..Len(stored) : DOMAIN stored[k].data = MetadataFields

\* load_dependency_graph has returned or raised
LoadOver == pc = "loaded" \/ (pc = "raised" /\ raised = "KeyError")

\* C17: loading the file save_dependency_graph wrote gives a table with the
\* same ids in the same order in which every component has the component_type,
\* file_path, relative_path, depends_on, start_line, end_line, has_docstring
\* and docstring it had, and neither tree node nor source text.
C17_RoundTrip ==
    (LoadOver /\ Intact) =>
        /\ raised = "none"
        /\ Len(components) = Len(before)
        /\ \A k \in 1..Len(components) :
               /\ \A field \in MetadataFields : components[k][field] = before[k][field]
               /\ components[k].node = "None"
               /\ components[k].source_code = "None"

\* C17 witness: a table was saved and loaded that has a component with two
\* dependencies, line numbers and a docstring and a component with none.
C17_Witness ==
    /\ pc = "loaded"
    /\ Intact
    /\ \E k, h \in 1..Len(before) :
           /\ Cardinality(before[k].depends_on) = 2
           /\ before[k].start_line > 0
           /\ before[k].has_docstring
           /\ before[h].depends_on = {}
           /\ ~before[h].has_docstring

\* C19 (as claimed): when a record of the file lacks one of its metadata
\* fields the load fails, and the component table is as it was.
C19_MissingFieldFails ==
    (LoadOver /\ ~Intact) => (raised = "KeyError" /\ components = before)

\* C19 (amended): the load fails exactly when a record lacks id,
\* component_type, file_path or relative_path, and then the component table
\* is as it was; a record that lacks another field is loaded with the
\* default of that field.
C19_MissingKeyFieldFails ==
    LoadOver =>
        /\ raised = "KeyError" <=>
               \E k \in 1..Len(stored) : ~(SubscriptedFields \subseteq DOMAIN stored[k].data)
        /\ raised = "KeyError" => components = before
        /\ raised = "none" =>
               /\ Len(components) = Len(stored)
               /\ \A k \in 1..Len(stored) :
                      /\ "depends_on" \notin DOMAIN stored[k].data => components[k].depends_on = {}
                      /\ "start_line" \notin DOMAIN stored[k].data => components[k].start_line = 0
                      /\ "end_line" \notin DOMAIN stored[k].data => components[k].end_line = 0
                      /\ "has_docstring" \notin DOMAIN stored[k].data => ~components[k].has_docstring
                      /\ "docstring" \notin DOMAIN stored[k].data => components[k].docstring = ""

\* C19 witness: the load has failed on a file whose first record is whole and
\* whose second record lacks its id.
C19_Witness ==
    /\ pc = "raised"
    /\ raised = "KeyError"
    /\ Len(stored) >= 2
    /\ DOMAIN stored[1].data = MetadataFields
    /\ "id" \notin DOMAIN stored[2].data

\* =========================================================================
\* ASTNodeAnalyzer.get_component_by_path
\* =========================================================================
\* dependency_path.split('.') is the sequence path_parts.  A path below the
\* repository root is a sequence of pairs <<name, extension>>.  The result of
\* a call is [kind, of]: kind "source" with the name of the symbol whose
\* source text is returned, "None", "text" for any other string, and "raise"
\* with the name of the exception.

\* s[0].isupper() and s[0].islower() for the names used here
first_isupper(name) == name \in {"Product"}
first_islower(name) == name \in {"pkg", "models", "helper", "run", "self"}

directories(path_parts) == [i \in 1..Len(path_parts) |-> <<path_parts[i], "">>]

\* os.path.exists: a file, or a directory that holds one
path_exists(files, path) ==
    \/ path \in files
    \/ \E f \in files : Len(f) > Len(path) /\ SubSeq(f, 1, Len(path)) = path

\* _get_node_source: the lines of the node, read from repo_path/file_path;
\* any error, as when the path is a directory, becomes a message
get_node_source(files, file_path, node) ==
    IF file_path \in files THEN [kind |-> "source", of |-> node.name]
    ELSE [kind |-> "text", of |-> "Error retrieving source"]

\* the file_path argument built from ast_tree, which has no attribute
\* file_path: the empty path, the repository directory itself
tree_file_path == <<>>

\* os.path.join(*path_parts[:-2] if len(path_parts) > 2 else ''): the star
\* applies to the whole conditional expression
folder_path_of(path_parts) ==
    LET arguments == IF Len(path_parts) > 2
                     THEN SubSeq(path_parts, 1, Len(path_parts) - 2)
                     ELSE <<>>
    IN  IF arguments = <<>> THEN [raised |-> "TypeError", folder_path |-> <<>>]
        ELSE [raised |-> "none", folder_path |-> directories(arguments)]

\* the nodes of a tree in the order of ast.walk
walk_nodes(tree) ==
    LET entries == walk(<<[node |-> tree, parent |-> "none"]>>)
    IN  [i \in 1..Len(entries) |-> entries[i].node]

\* the first member of a sequence with an index in the set, as <<member>>
first_of(seq, indices) ==
    IF indices = {} THEN <<>>
    ELSE <<seq[CHOOSE i \in indices : \A j \in indices : i <= j]>>

\* for node in ast.walk(tree): for item in node.body: the first method
\* item of that name in a class of that name
find_method(tree, class_name, method_name) ==
    LET nodes == walk_nodes(tree)
        has_method(node) ==
            /\ node.type = "ClassDef" /\ node.name = class_name
            /\ \E j \in 1..Len(node.body) :
                   node.body[j].type = "FunctionDef" /\ node.body[j].name = method_name
        class == first_of(nodes, {i \in 1..Len(nodes) : has_method(nodes[i])})
    IN  IF class = <<>> THEN <<>>
        ELSE first_of(class[1].body,
                      {j \in 1..Len(class[1].body) :
                          /\ class[1].body[j].type = "FunctionDef"
                          /\ class[1].body[j].name = method_name})

\* for node in ast.walk(tree): the first node of that type and name
find_named(tree, type, name) ==
    LET nodes == walk_nodes(tree)
    IN  first_of(nodes, {i \in 1..Len(nodes) : nodes[i].type = type /\ nodes[i].name = name})

_get_method_component(r) ==
    LET path_parts == r.path_parts
        n == Len(path_parts)
    IN  IF n < 3 THEN [kind |-> "None", of |-> ""]
        ELSE
        LET method_name == path_parts[n]
            class_name == path_parts[n - 1]
            file_name == path_parts[n - 2]
            folder_path == IF n > 3 THEN directories(SubSeq(path_parts, 1, n - 3)) ELSE <<>>
            target_file_path == Append(folder_path, <<file_name, "">>)
            own == IF r.ast_node.type = "ClassDef"
                   THEN first_of(r.ast_node.body,
                                 {j \in 1..Len(r.ast_node.body) :
                                     /\ r.ast_node.body[j].type = "FunctionDef"
                                     /\ r.ast_node.body[j].name = method_name})
                   ELSE <<>>
            local == find_method(r.ast_tree, class_name, method_name)
            found == find_method(r.target_ast, class_name, method_name)
        IN  IF class_name = "self"
            THEN IF own # <<>> THEN get_node_source(r.files, tree_file_path, own[1])
                 ELSE [kind |-> "None", of |-> ""]
            ELSE IF ~path_exists(r.files, target_file_path)
            THEN IF local # <<>> THEN get_node_source(r.files, tree_file_path, local[1])
                 ELSE [kind |-> "None", of |-> ""]
            ELSE IF target_file_path \notin r.files \/ ~r.parseable
            THEN [kind |-> "text", of |-> "Error retrieving method"]
            ELSE IF found # <<>>
            \* self.get_node_source does not exist: AttributeError, caught
            THEN [kind |-> "text", of |-> "Error retrieving method"]
            ELSE [kind |-> "None", of |-> ""]

_get_function_component(r) ==
    LET path_parts == r.path_parts
        n == Len(path_parts)
        function_name == path_parts[n]
        file_name == path_parts[n - 1]
        folder == folder_path_of(path_parts)
        target_file_path == Append(folder.folder_path, <<file_name, "">>)
        local == find_named(r.ast_tree, "FunctionDef", function_name)
        found == find_named(r.target_ast, "FunctionDef", function_name)
    IN  IF folder.raised # "none" THEN [kind |-> "raise", of |-> folder.raised]
        ELSE IF function_name = "self"
        THEN IF r.ast_node.type = "FunctionDef"
             THEN get_node_source(r.files, tree_file_path, r.ast_node)
             ELSE [kind |-> "None", of |-> ""]
        ELSE IF ~path_exists(r.files, target_file_path)
        THEN IF local # <<>> THEN get_node_source(r.files, tree_file_path, local[1])
             ELSE [kind |-> "None", of |-> ""]
        ELSE IF target_file_path \notin r.files \/ ~r.parseable
        THEN [kind |-> "text", of |-> "Error retrieving function"]
        ELSE IF found # <<>> THEN get_node_source(r.files, target_file_path, found[1])
        ELSE [kind |-> "None", of |-> ""]

\* _find_class_init_in_node: the first call of that name inside ast_node
find_class_init_in_node(ast_node, class_name) == find_named(ast_node, "Call", class_name)

_get_class_component(r) ==
    LET path_parts == r.path_parts
        n == Len(path_parts)
        class_name == path_parts[n]
        file_name == <<path_parts[n - 1], ".py">>
        folder == folder_path_of(path_parts)
        target_file_path == Append(folder.folder_path, file_name)
        found == find_named(r.target_ast, "ClassDef", class_name)
    IN  IF folder.raised # "none" THEN [kind |-> "raise", of |-> folder.raised]
        ELSE IF class_name = "self"
        THEN IF r.ast_node.type = "ClassDef"
             THEN get_node_source(r.files, tree_file_path, r.ast_node)
             ELSE [kind |-> "None", of |-> ""]
        ELSE IF find_class_init_in_node(r.ast_node, class_name) # <<>>
        THEN [kind |-> "text", of |-> "call"]
        ELSE IF ~path_exists(r.files, target_file_path) THEN [kind |-> "None", of |-> ""]
        ELSE IF target_file_path \notin r.files \/ ~r.parseable
        THEN [kind |-> "text", of |-> "Error retrieving class"]
        ELSE IF found # <<>> THEN get_node_source(r.files, target_file_path, found[1])
        ELSE [kind |-> "None", of |-> ""]

get_component_by_path(r) ==
    LET path_parts == r.path_parts
        n == Len(path_parts)
    IN  IF n < 2 THEN [kind |-> "None", of |-> ""]
        ELSE IF /\ n >= 3
                /\ path_parts[n - 1] # "self"
                /\ first_islower(path_parts[n])
                /\ first_isupper(path_parts[n - 1])
        THEN _get_method_component(r)
        ELSE IF first_isupper(path_parts[n]) THEN _get_class_component(r)
        ELSE _get_function_component(r)

MaxSegments == 4

\* the segments dependency ids are made of
SegmentNames == {"pkg", "models", "helper", "run", "Product", "self", "__init__"}

\* the file the focal component is in, and the focal components
caller_function == FunctionDef("caller", <<Call("Product"), Call("helper")>>)
local_class == ClassDef("Local", <<FunctionDef("run", <<Call("helper")>>)>>)
focal_tree == Module(<<caller_function, FunctionDef("helper", <<>>), local_class>>)

\* what every readable file of the repository holds
library_tree ==
    Module(<<ClassDef("Product", <<FunctionDef("run", <<Call("helper")>>)>>),
             FunctionDef("helper", <<Call("Product")>>)>>)

\* the files the repository may hold: models.py, pkg/models.py and pkg/models
RepositoryFiles ==
    {<<<<"models", ".py">>>>,
     <<<<"pkg", "">>, <<"models", ".py">>>>,
     <<<<"pkg", "">>, <<"models", "">>>>}

\* a call get_component_by_path(ast_node, ast_tree, dependency_path) is due
InitLookup ==
    /\ TopoIdle
    /\ LimiterIdle
    /\ components = <<>>
    /\ repo = <<>>
    /\ modules = {}
    /\ pc = "lookup"
    /\ cursor = 0
    /\ component_node = <<>>
    /\ raised = "none"
    /\ stored = <<>>
    /\ before = <<>>
    /\ returned = <<>>
    /\ \E n \in 1..MaxSegments :
           \E path_parts \in [1..n -> SegmentNames] :
               \E files \in SUBSET RepositoryFiles :
                   \E parseable \in BOOLEAN :
                       \E ast_node \in {caller_function, local_class} :
                           request = [path_parts |-> path_parts, files |-> files,
                                      parseable |-> parseable, ast_node |-> ast_node,
                                      ast_tree |-> focal_tree, target_ast |-> library_tree]

GetComponentByPath ==
    /\ pc = "lookup"
    /\ returned = <<>>
    /\ LET r == get_component_by_path(request)
       IN  /\ returned' = r
           /\ raised' = IF r.kind = "raise" THEN r.of ELSE "none"
           /\ pc' = IF r.kind = "raise" THEN "raised" ELSE "returned"
    /\ UNCHANGED <<components, repo, modules, cursor, component_node, stored, before, request>>
    /\ UNCHANGED topoVars
    /\ UNCHANGED limiterVars

NextLookup == GetComponentByPath

SpecLookup == InitLookup /\ [][NextLookup]_vars

\* C18 (as claimed): whatever the dependency id, get_component_by_path
\* raises nothing and returns the source text of the dependency or None.
C18_SourceOrNone ==
    returned # <<>> => returned.kind \in {"source", "None"}

\* =========================================================================
\* topo_sort: further claims
\* =========================================================================

\* the strongly connected components with more than one member
ProperSCCs == {SCCOf(graph, u) : u \in {v \in DOMAIN graph : Cardinality(SCCOf(graph, v)) > 1}}

C22_CyclePairsAreEdges ==
    called = "detect_cycles" =>
        \A i \in 1..Len(cycles) :
            /\ \A j \in 1..(Len(cycles[i]) - 1) : cycles[i][j + 1] \in graph[cycles[i][j]]
            /\ cycles[i][1] \in graph[cycles[i][Len(cycles[i])]]

\* every strongly connected component with more than one member is a single
\* simple cycle without chord: each member has one dependency inside it
OnlySimpleRings ==
    \A S \in ProperSCCs : \A u \in S : Cardinality(graph[u] \cap S) = 1

\* C23 (as claimed): when every component with more than one member is a
\* simple ring, detect_cycles finds no cycle in the graph resolve_cycles returns.
C23_RingsBroken ==
    (called = "resolve_cycles" /\ OnlySimpleRings) =>
        \A it \in IterOrders(new_graph) : detect_cycles(new_graph, keys, it) = <<>>

\* the least member of a non-empty set of ids
Least(S) == CHOOSE x \in S : \A y \in S : x <= y

\* the reference order: post-order from the pending nodes taken in ascending
\* order, each node after its dependencies in ascending order, visited
\* nodes skipped.  st is [visited, order].
RECURSIVE ReferenceWalk(_, _, _)
ReferenceWalk(g, pending, st) ==
    IF pending = {} THEN st
    ELSE LET node == Least(pending)
             rest == pending \ {node}
         IN  IF node \in st.visited THEN ReferenceWalk(g, rest, st)
             ELSE LET below == ReferenceWalk(g, g[node],
                                             [st EXCEPT !.visited = @ \cup {node}])
                  IN  ReferenceWalk(g, rest, [below EXCEPT !.order = Append(@, node)])

ReferenceOrder(g) == ReferenceWalk(g, NoIncoming(g), [visited |-> {}, order |-> <<>>]).order

\* C24: for an acyclic graph the order returned is the reference order.
C24_ReferenceOrder ==
    (DfsDone /\ ~IsCyclic(graph)) => result = ReferenceOrder(graph)

\* C24 witness: an acyclic graph with two roots, found in descending order
\* of id, one of which depends on a node, has been ordered.
C24_Witness ==
    /\ DfsDone
    /\ ~IsCyclic(graph)
    /\ Len(root_nodes) >= 2
    /\ root_nodes[1] > root_nodes[2]
    /\ \E u \in DOMAIN graph : graph[u] # {}

\* =========================================================================
\* parse_repository: further claims
\* =========================================================================

\* the dependencies the references inside the component's own node stand for
OwnReferences(component) ==
    {Append(file_to_module_path(component.relative_path), name) :
        name \in referenced_names(component.node)}

\* C25 (as claimed): while and after the components are resolved, and before
\* the methods are attached, every dependency of a component comes from a
\* reference inside the component's own syntax subtree.
C25_OwnSubtreeOnly ==
    pc = "resolve" =>
        \A k \in 1..Len(components) :
            components[k].depends_on \subseteq OwnReferences(components[k])

\* all nodes of a tree, each with its parent
RECURSIVE NodesWithParent(_, _)
NodesWithParent(node, parent) ==
    {[node |-> node, parent |-> parent]}
    \cup UNION {NodesWithParent(node.body[i], node) : i \in 1..Len(node.body)}

\* the components the claim expects of one parseable file, as <<id, type>>
ExpectedOfFile(file) ==
    LET module_path == file_to_module_path(file.relative_path)
        all == NodesWithParent(file.tree, Module(<<>>))
    IN  {<<Append(module_path, e.node.name), "class">> :
            e \in {x \in all : x.node.type = "ClassDef"}}
        \cup {<<module_path \o <<e.parent.name, e.node.name>>, "method">> :
                e \in {x \in all : x.node.type = "FunctionDef" /\ x.parent.type = "ClassDef"}}
        \cup {<<Append(module_path, e.node.name), "function">> :
                e \in {x \in all : x.node.type = "FunctionDef" /\ x.parent.type = "Module"}}

ExpectedComponents ==
    UNION {ExpectedOfFile(repo[i]) : i \in {j \in 1..Len(repo) : repo[j].parseable}}

\* C26 (as claimed): extraction raises nothing, and the components it leaves
\* are a Class for every class definition, a Method for every function
\* directly in a class body and a Function for every function whose parent
\* is the module, with or without docstring, and nothing else.
C26_ComponentsOfEveryDefinition ==
    ExtractionOver =>
        /\ raised = "none"
        /\ {<<components[k].id, components[k].component_type>> : k \in 1..Len(components)}
               = ExpectedComponents

\* =========================================================================
\* DependencyCollector._add_dependency
\* =========================================================================
\* A collector is [from_imports, repo_modules, current_module,
\* local_variables, dependencies]; from_imports is the dict of ImportCollector
\* in insertion order, a sequence of [module, names].

\* the members of dir(builtins) among the names used here
BUILTIN_TYPES == {"print", "len", "Exception"}

STANDARD_MODULES ==
    {<<"abc">>, <<"argparse">>, <<"array">>, <<"asyncio">>, <<"base64">>, <<"collections">>,
     <<"copy">>, <<"csv">>, <<"datetime">>, <<"enum">>, <<"functools">>, <<"glob">>, <<"io">>,
     <<"itertools">>, <<"json">>, <<"logging">>, <<"math">>, <<"os">>, <<"pathlib">>,
     <<"random">>, <<"re">>, <<"shutil">>, <<"string">>, <<"sys">>, <<"time">>, <<"typing">>,
     <<"uuid">>, <<"warnings">>, <<"xml">>}

EXCLUDED_NAMES == {"self", "cls"}

\* for module, imported_names in self.from_imports.items(): the first module
\* that is no standard module, imports the name and is a repository module
RECURSIVE imported_from(_, _, _, _)
imported_from(from_imports, repo_modules, name, i) ==
    IF i > Len(from_imports) THEN <<>>
    ELSE IF from_imports[i].module \in STANDARD_MODULES
    THEN imported_from(from_imports, repo_modules, name, i + 1)
    ELSE IF name \in Range(from_imports[i].names) /\ from_imports[i].module \in repo_modules
    THEN <<from_imports[i].module>>
    ELSE imported_from(from_imports, repo_modules, name, i + 1)

\* self.dependencies after _add_dependency(name)
_add_dependency(collector, name) ==
    IF name \in BUILTIN_TYPES THEN collector.dependencies
    ELSE IF name \in EXCLUDED_NAMES THEN collector.dependencies
    ELSE IF name \in collector.local_variables THEN collector.dependencies
    ELSE LET module == imported_from(collector.from_imports, collector.repo_modules, name, 1)
         IN  IF module # <<>>
             THEN collector.dependencies \cup {Append(module[1], name)}
             ELSE collector.dependencies
                      \cup {add_dependency(collector.current_module, name)}

MaxImports == 2

\* the modules a file may import from, and what it may import from each
ImportableModules == {<<"utils">>, <<"string">>, <<"pkg", "b">>, <<"os">>}
ImportedNames == {<<"helper">>, <<"other">>, <<"helper", "other">>}

\* a collector for a component of module a and a bare identifier it meets
InitCollect ==
    /\ TopoIdle
    /\ LimiterIdle
    /\ components = <<>>
    /\ repo = <<>>
    /\ modules = {}
    /\ pc = "collect"
    /\ cursor = 0
    /\ component_node = <<>>
    /\ raised = "none"
    /\ stored = <<>>
    /\ before = <<>>
    /\ returned = <<>>
    /\ \E n \in 0..MaxImports :
           \E imported \in [1..n -> ImportableModules] :
               \E names \in [1..n -> ImportedNames] :
                   \E registered \in SUBSET (ImportableModules \ {<<"os">>}) :
                       \E local_variables \in {{}, {"x"}, {"helper"}} :
                           \E name \in {"helper", "other", "print", "self", "x"} :
                               /\ \A i, j \in 1..n : i # j => imported[i] # imported[j]
                               /\ request =
                                      [from_imports |->
                                           [i \in 1..n |-> [module |-> imported[i],
                                                            names |-> names[i]]],
                                       repo_modules |-> registered \cup {<<"a">>},
                                       current_module |-> <<"a">>,
                                       local_variables |-> local_variables,
                                       dependencies |-> {},
                                       name |-> name]

\* self._add_dependency(name)
AddDependency ==
    /\ pc = "collect"
    /\ returned = <<>>
    /\ returned' = [dependencies |-> _add_dependency(request, request.name)]
    /\ pc' = "collected"
    /\ UNCHANGED <<components, repo, modules, cursor, component_node, raised, stored, before,
                   request>>
    /\ UNCHANGED topoVars
    /\ UNCHANGED limiterVars

NextCollect == AddDependency

SpecCollect == InitCollect /\ [][NextCollect]_vars

\* the repository modules the file imports the identifier from
RegisteredImporters ==
    {request.from_imports[i].module : i \in {j \in 1..Len(request.from_imports) :
        /\ request.name \in Range(request.from_imports[j].names)
        /\ request.from_imports[j].module \in request.repo_modules}}

\* C27 (as claimed): for an identifier that is no built-in, not self or cls
\* and no local, exactly one dependency is emitted: module.name for a
\* registered repository module the name is imported from, whatever the
\* module is called, and current_module.name when there is none.
C27_ImportedOrSibling ==
    (/\ pc = "collected"
     /\ request.name \notin BUILTIN_TYPES \cup EXCLUDED_NAMES \cup request.local_variables) =>
        /\ Cardinality(returned.dependencies) = 1
        /\ IF RegisteredImporters # {}
           THEN \E module \in RegisteredImporters :
                    returned.dependencies = {Append(module, request.name)}
           ELSE returned.dependencies = {Append(request.current_module, request.name)}

\* =========================================================================
\* The pipeline: components -> graph -> detect / resolve / dependency-first
\* =========================================================================
\* What the caller still holds after each call.  The component table is the
\* dict passed to build_graph_from_components, the graph is the dict passed
\* to the three functions of topo_sort.py.

\* build_graph_from_components reads components.items() and
\* component.depends_on and writes the new dict graph only
caller_components(table, built) == table

\* variant: new_graph = {node: deps for ...}, its sets shared with the graph
caller_graph_shared(g, found, returned_graph) ==
    IF found = <<>> THEN g ELSE returned_graph

\* resolve_cycles returns the graph unwritten when no cycle is found; else
\* new_graph = {node: deps.copy() ...} is a new dict of new sets and
\* new_graph[current].remove(next_node) writes to these
caller_graph(g, found, returned_graph) == g

\* a component table found in the order of its ids
InitPipeline ==
    /\ TopoIdle
    /\ LimiterIdle
    /\ ParserIdle
    /\ IsComponentTable(components)
    /\ \A k \in 1..Len(components) : components[k].id = k

\* graph = build_graph_from_components(components)
PipelineBuild ==
    /\ called = "none"
    /\ called' = "build_graph_from_components"
    /\ LET r == build_graph_from_components(components)
       IN  /\ graph' = r.graph
           /\ keys' = r.keys
           /\ iter' \in IterOrders(r.graph)
           /\ components' = caller_components(components, r.graph)
    /\ UNCHANGED <<cycles, new_graph, root_nodes, result, earlier>>
    /\ UNCHANGED <<repo, modules, pc, cursor, component_node, raised, toolVars>>
    /\ UNCHANGED limiterVars

\* detect_cycles(graph): graph.get(node, set()) and iteration only
PipelineDetectCycles ==
    /\ called = "build_graph_from_components"
    /\ called' = "detect_cycles"
    /\ cycles' = detect_cycles(graph, keys, iter)
    /\ UNCHANGED <<graph, keys, iter, new_graph, root_nodes, result, earlier>>
    /\ UNCHANGED analyzerVars
    /\ UNCHANGED limiterVars

\* resolve_cycles(graph)
PipelineResolveCycles ==
    /\ called = "build_graph_from_components"
    /\ called' = "resolve_cycles"
    /\ LET r == resolve_cycles(graph, keys, iter)
       IN  /\ cycles' = r.cycles
           /\ new_graph' = r.graph
           /\ graph' = caller_graph(graph, r.cycles, r.graph)
    /\ UNCHANGED <<keys, iter, root_nodes, result, earlier>>
    /\ UNCHANGED analyzerVars
    /\ UNCHANGED limiterVars

\* dependency_first_dfs(graph): has_incoming_edge, visited and result are new
\* objects, acyclic_graph is read only
PipelineDependencyFirstDfs ==
    /\ called = "build_graph_from_components"
    /\ called' = "dependency_first_dfs"
    /\ LET r == dependency_first_dfs(graph, keys, iter)
       IN  /\ cycles' = r.cycles
           /\ new_graph' = r.acyclic_graph
           /\ root_nodes' = r.root_nodes
           /\ result' = r.result
           /\ graph' = caller_graph(graph, r.cycles, r.acyclic_graph)
    /\ UNCHANGED <<keys, iter, earlier>>
    /\ UNCHANGED analyzerVars
    /\ UNCHANGED limiterVars

NextPipeline ==
    \/ PipelineBuild
    \/ PipelineDetectCycles
    \/ PipelineResolveCycles
    \/ PipelineDependencyFirstDfs

SpecPipeline == InitPipeline /\ [][NextPipeline]_vars

Window == 60

\* RateLimiter.__init__ with buffer_percentage = 0.1
RateLimiter(requests_per_minute, input_tokens_per_minute, output_tokens_per_minute, input_token_price_per_million, output_token_price_per_million) ==
    [requests_per_minute |-> 9 * requests_per_minute,
     input_tokens_per_minute |-> 9 * input_tokens_per_minute,
     output_tokens_per_minute |-> 9 * output_tokens_per_minute,
     input_token_price_per_million |-> input_token_price_per_million,
     output_token_price |-> output_token_price_per_million,
     request_timestamps |-> <<>>,
     input_token_usage |-> <<>>,
     output_token_usage |-> <<>>,
     total_requests |-> 0,
     total_input_tokens |-> 0,
     total_output_tokens |-> 0,
     total_cost |-> 0]

\* sum(count for _, count in usage_queue)
RECURSIVE _get_usage_count(_)
_get_usage_count(usage_queue) ==
    IF usage_queue = <<>> THEN 0
    ELSE Head(usage_queue)[2] + _get_usage_count(Tail(usage_queue))

\* the timestamp of an entry: entry[0] of a tuple, else the entry
entry_time(entry, is_tuple) == IF is_tuple THEN entry[1] ELSE entry

\* while usage_queue and <timestamp of usage_queue[0]> < one_minute_ago: popleft()
RECURSIVE _clean_old_entries(_, _, _)
_clean_old_entries(usage_queue, current_time, is_tuple) ==
    IF usage_queue # <<>> /\ entry_time(Head(usage_queue), is_tuple) < current_time - Window
    THEN _clean_old_entries(Tail(usage_queue), current_time, is_tuple)
    ELSE usage_queue

\* 60 - (current_time - <timestamp of usage_queue[0]>) when the queue is not empty
wait_for(usage_queue, current_time, is_tuple) ==
    IF usage_queue = <<>> THEN 0
    ELSE Window - (current_time - entry_time(Head(usage_queue), is_tuple))

Max(a, b) == IF a >= b THEN a ELSE b

\* one pass of the while loop of wait_if_needed: the limiter with its queues
\* cleaned, whether the loop is left (the request fits, or waiting cannot
\* help), and the time to sleep otherwise
wait_pass(self, current_time, input_tokens, estimated_output_tokens) ==
    LET cleaned ==
            [self EXCEPT
                !.request_timestamps = _clean_old_entries(@, current_time, FALSE),
                !.input_token_usage = _clean_old_entries(@, current_time, TRUE),
                !.output_token_usage = _clean_old_entries(@, current_time, TRUE)]
        current_requests == Len(cleaned.request_timestamps)
        current_input_tokens == _get_usage_count(cleaned.input_token_usage)
        current_output_tokens == _get_usage_count(cleaned.output_token_usage)
        fits ==
            /\ 10 * (current_requests + 1) <= cleaned.requests_per_minute
            /\ 10 * (current_input_tokens + input_tokens) <= cleaned.input_tokens_per_minute
            /\ 10 * (current_output_tokens + estimated_output_tokens)
                   <= cleaned.output_tokens_per_minute
        wait_time ==
            Max(Max(Max(0, wait_for(cleaned.request_timestamps, current_time, FALSE)),
                    wait_for(cleaned.input_token_usage, current_time, TRUE)),
                wait_for(cleaned.output_token_usage, current_time, TRUE))
    IN  [limiter |-> cleaned, left |-> fits \/ wait_time <= 0, wait_time |-> wait_time]

\* record_request: the queues and the totals are updated, then the cost is
\* computed from self.input_token_price, an attribute __init__ does not set
record_request(self, current_time, input_tokens, output_tokens) ==
    LET recorded ==
            [self EXCEPT
                !.request_timestamps = Append(@, current_time),
                !.input_token_usage = Append(@, <<current_time, input_tokens>>),
                !.output_token_usage = Append(@, <<current_time, output_tokens>>),
                !.total_requests = @ + 1,
                !.total_input_tokens = @ + input_tokens,
                !.total_output_tokens = @ + output_tokens]
    IN  IF "input_token_price" \in DOMAIN self
        THEN [limiter |-> [recorded EXCEPT
                              !.total_cost = @ + input_tokens * self.input_token_price
                                               + output_tokens * self.output_token_price],
              raised |-> "none"]
        ELSE [limiter |-> recorded, raised |-> "AttributeError"]

MaxThreads == 2
MaxCalls == 2
MaxTime == 90
MaxRequestsPerMinute == 3

\* token counts of a request (max_tokens caps the answer), and the capacities
\* and prices a limiter is made with
TokenCounts == {1, 2}
max_tokens == 2
TokenCapacities == {3, 20}
Prices == <<3, 6>>

\* a limiter that admits at least one request, shared by threads that have
\* not called generate yet
InitLimiter ==
    /\ TopoIdle
    /\ ParserIdle
    /\ components = <<>>
    /\ lock = 0
    /\ clock = 0
    /\ threads = [t \in 1..MaxThreads |->
                     [pc |-> "idle", input_tokens |-> 0, max_tokens |-> 0, wake |-> 0,
                      recorded |-> <<>>, raised |-> "none"]]
    /\ \E requests_per_minute \in 2..MaxRequestsPerMinute :
           \E tokens_per_minute \in TokenCapacities :
               limiter = RateLimiter(requests_per_minute, tokens_per_minute,
                                     tokens_per_minute, Prices[1], Prices[2])

LimiterFrame ==
    /\ UNCHANGED topoVars
    /\ UNCHANGED analyzerVars

\* the calls of generate made so far, by all threads
calls_made ==
    Cardinality({t \in 1..MaxThreads : threads[t].pc # "idle"})
        + Cardinality({c \in (1..MaxThreads) \X (1..MaxCalls) :
                          c[2] <= Len(threads[c[1]].recorded)})

\* a thread calls generate(messages, temperature, max_tokens)
Generate(t) ==
    /\ threads[t].pc = "idle"
    /\ calls_made < MaxCalls
    /\ \E input_tokens \in TokenCounts :
           threads' = [threads EXCEPT ![t].pc = "wait_if_needed",
                                      ![t].input_tokens = input_tokens,
                                      ![t].max_tokens = max_tokens]
    /\ UNCHANGED <<limiter, lock, clock>>
    /\ LimiterFrame

\* what a pass of the loop leaves: the lock is released when the loop is
\* left, else the thread sleeps holding it
after_pass(t, pass) ==
    /\ limiter' = pass.limiter
    /\ IF pass.left
       THEN /\ lock' = 0
            /\ threads' = [threads EXCEPT ![t].pc = "request"]
       ELSE /\ lock' = t
            /\ threads' = [threads EXCEPT ![t].pc = "sleep",
                                          ![t].wake = clock + pass.wait_time]

\* self.rate_limiter.wait_if_needed(input_tokens, max_tokens): with self.lock,
\* the first pass of the loop
WaitIfNeeded(t) ==
    /\ threads[t].pc = "wait_if_needed"
    /\ lock = 0
    /\ after_pass(t, wait_pass(limiter, clock, threads[t].input_tokens, threads[t].max_tokens))
    /\ UNCHANGED clock
    /\ LimiterFrame

\* time.sleep(wait_time) returns and the loop makes another pass
WakeUp(t) ==
    /\ threads[t].pc = "sleep"
    /\ lock = t
    /\ clock >= threads[t].wake
    /\ after_pass(t, wait_pass(limiter, clock, threads[t].input_tokens, threads[t].max_tokens))
    /\ UNCHANGED clock
    /\ LimiterFrame

\* the model answers the request and
\* self.rate_limiter.record_request(input_tokens, output_tokens) is called;
\* an exception leaves generate
RecordRequest(t) ==
    /\ threads[t].pc = "request"
    /\ lock = 0
    /\ \E output_tokens \in TokenCounts :
           LET r == record_request(limiter, clock, threads[t].input_tokens, output_tokens)
           IN  /\ limiter' = r.limiter
               /\ threads' = [threads EXCEPT
                                 ![t].pc = "idle",
                                 ![t].recorded =
                                     Append(@, <<threads[t].input_tokens, output_tokens>>),
                                 ![t].raised = r.raised]
    /\ UNCHANGED <<lock, clock>>
    /\ LimiterFrame

\* half a minute passes
Tick ==
    /\ clock + Window \div 2 <= MaxTime
    /\ clock' = clock + Window \div 2
    /\ UNCHANGED <<limiter, lock, threads>>
    /\ LimiterFrame

NextLimiter ==
    \/ \E t \in 1..MaxThreads : Generate(t)
    \/ \E t \in 1..MaxThreads : WaitIfNeeded(t)
    \/ \E t \in 1..MaxThreads : WakeUp(t)
    \/ \E t \in 1..MaxThreads : RecordRequest(t)
    \/ Tick

SpecLimiter == InitLimiter /\ [][NextLimiter]_vars

\* the requests recorded with a timestamp in the minute that starts at w
RecordedWithin(w) ==
    Cardinality({i \in 1..Len(limiter.request_timestamps) :
                    /\ w <= limiter.request_timestamps[i]
                    /\ limiter.request_timestamps[i] < w + Window})

\* C29 (as claimed): in every interleaving of threads that call
\* wait_if_needed before and record_request after a request, the number of
\* requests recorded within any window of 60 seconds is at most the buffered
\* requests_per_minute.  (Entries leave request_timestamps only when they are
\* more than 60 seconds old, so every window that ends now is in the queue.)
C29_WindowWithinLimit ==
    \A w \in 0..clock : 10 * RecordedWithin(w) <= limiter.requests_per_minute

\* the <<input_tokens, output_tokens>> of the record_request calls made by
\* the threads 1..t
RECURSIVE CallsUpTo(_)
CallsUpTo(t) == IF t = 0 THEN <<>> ELSE CallsUpTo(t - 1) \o threads[t].recorded

RECURSIVE Total(_, _)
Total(calls, k) == IF calls = <<>> THEN 0 ELSE Head(calls)[k] + Total(Tail(calls), k)

\* C30 (as claimed): after any sequence of record_request calls every call
\* has returned normally, total_requests is the number of calls,
\* total_input_tokens and total_output_tokens are the sums of the recorded
\* counts, and total_cost is the sum of input_tokens times the input price
\* plus output_tokens times the output price.
C30_TotalsMatchCalls ==
    LET calls == CallsUpTo(MaxThreads)
    IN  /\ \A t \in 1..MaxThreads : threads[t].raised = "none"
        /\ limiter.total_requests = Len(calls)
        /\ limiter.total_input_tokens = Total(calls, 1)
        /\ limiter.total_output_tokens = Total(calls, 2)
        /\ limiter.total_cost = Prices[1] * Total(calls, 1) + Prices[2] * Total(calls, 2)

====
